---- MODULE Spec2Model ----
(***************************************************************************)
(* Model of static/js/main.js: the JSON request helper apiRequest, the     *)
(* dashboard statistics poller updateStats with its setInterval schedule,  *)
(* and the debounce closure behind handleSearch.                           *)
(*                                                                         *)
(* JavaScript strings are sequences of one-character strings.  JavaScript  *)
(* values are tagged records: [t |-> "null"], [t |-> "undefined"],         *)
(* [t |-> "bool", v |-> b], [t |-> "num", v |-> n] (integers only),        *)
(* [t |-> "str", v |-> s], [t |-> "arr", v |-> <<values>>] and             *)
(* [t |-> "obj", v |-> <<[k |-> key, v |-> value], ...>>] with the members *)
(* in insertion order.                                                     *)
(***************************************************************************)
EXTENDS Integers, Sequences, FiniteSets, TLC

VARIABLES
    \* ---- apiRequest, one call at a time -------------------------------
    pc,          \* "idle" | "awaiting" (fetch in flight) | "settled"
    args,        \* [method, data] of the current call
    request,     \* what the current call handed to fetch
    nCalls,      \* number of apiRequest calls so far
    nFetches,    \* number of fetch invocations so far
    response,    \* what the transport delivered to the current call
    outcome,     \* how the promise returned by apiRequest settled
    nRejected,   \* number of calls that rejected so far
    toasts,      \* toasts appended to #toast-container and not yet removed
    \* ---- page, DOM and the statistics poller ---------------------------
    pathname,    \* window.location.pathname
    loaded,      \* the script's top-level code has run
    intervals,   \* handles created by setInterval(updateStats, 30000)
    now,         \* milliseconds since the script ran
    dom,         \* textContent of the stat-* elements that exist
    inflight,    \* tick number -> the /api/stats promise chain of that tick
    dispatched,  \* number of updateStats invocations so far
    last,        \* the chain that completed most recently
    lastOk,      \* the last chain that did not fail: its tick n, its elements
                 \* object, and the newest tick that did not fail so far
    consoleErrors, \* number of 'Failed to update stats:' lines logged
    unhandled,   \* promise rejections no handler consumed
    \* ---- debounce ------------------------------------------------------
    timeout,     \* the closure variable of debounce: a timer id, or 0
    timers,      \* pending setTimeout(later, wait) timers
    nextId,      \* next timer id handed out by setTimeout
    clock,       \* milliseconds, debounce time line
    calls,       \* calls of the debounced function: [time, args]
    invoked      \* invocations of func: [time, args, call, calls]

apiVars  == <<pc, args, request, nCalls, nFetches, response, outcome, nRejected>>
pollVars == <<pathname, loaded, intervals, now, dom, inflight, dispatched,
              last, lastOk, consoleErrors, unhandled>>
debVars  == <<timeout, timers, nextId, clock, calls, invoked>>
vars     == <<apiVars, toasts, pollVars, debVars>>

\* the element of a one-element set: The({e(x) : x \in {v}}) is e(v), with v
\* evaluated once
The(S) == CHOOSE x \in S : TRUE

(***************************************************************************)
(* Strings                                                                 *)
(***************************************************************************)
Digits == <<"0", "1", "2", "3", "4", "5", "6", "7", "8", "9">>

DigitChars == {Digits[i] : i \in 1..10}

DigitValue(c) == (CHOOSE i \in 1..10 : Digits[i] = c) - 1

RECURSIVE NatToString(_)
NatToString(n) ==
    IF n < 10 THEN <<Digits[n + 1]>>
    ELSE Append(NatToString(n \div 10), Digits[(n % 10) + 1])

\* Number.prototype.toString for the integers of the model
NumberToString(n) == IF n < 0 THEN <<"-">> \o NatToString(-n) ELSE NatToString(n)

S_true      == <<"t", "r", "u", "e">>
S_false     == <<"f", "a", "l", "s", "e">>
S_null      == <<"n", "u", "l", "l">>
S_undefined == <<"u", "n", "d", "e", "f", "i", "n", "e", "d">>
S_error     == <<"e", "r", "r", "o", "r">>
S_objectObject == <<"[", "o", "b", "j", "e", "c", "t", " ", "O", "b", "j", "e", "c", "t", "]">>
S_apiRequestFailed ==
    <<"A", "P", "I", " ", "r", "e", "q", "u", "e", "s", "t", " ", "f", "a", "i", "l", "e", "d">>
S_apiStats  == <<"/", "a", "p", "i", "/", "s", "t", "a", "t", "s">>

(***************************************************************************)
(* JavaScript values                                                       *)
(***************************************************************************)
JNull      == [t |-> "null"]
JUndefined == [t |-> "undefined"]
JBool(b)   == [t |-> "bool", v |-> b]
JNum(n)    == [t |-> "num", v |-> n]
JStr(s)    == [t |-> "str", v |-> s]
JArr(a)    == [t |-> "arr", v |-> a]
JObj(m)    == [t |-> "obj", v |-> m]
Member(k, v) == [k |-> k, v |-> v]

\* ToBoolean: what `if (data)` and `a || b` test
ToBoolean(x) ==
    CASE x.t = "null"      -> FALSE
      [] x.t = "undefined" -> FALSE
      [] x.t = "bool"      -> x.v
      [] x.t = "num"       -> x.v # 0
      [] x.t = "str"       -> x.v # <<>>
      [] OTHER             -> TRUE

RECURSIVE JoinStrings(_, _)
JoinStrings(ss, sep) ==
    IF ss = <<>> THEN <<>>
    ELSE IF Len(ss) = 1 THEN ss[1]
    ELSE ss[1] \o sep \o JoinStrings(Tail(ss), sep)

\* ToString, as `new Error(x)` applies it to its argument
RECURSIVE JSToString(_)
JSToString(x) ==
    CASE x.t = "null"      -> S_null
      [] x.t = "undefined" -> S_undefined
      [] x.t = "bool"      -> IF x.v THEN S_true ELSE S_false
      [] x.t = "num"       -> NumberToString(x.v)
      [] x.t = "str"       -> x.v
      [] x.t = "arr"       ->
            JoinStrings([i \in 1..Len(x.v) |->
                            IF x.v[i].t \in {"null", "undefined"} THEN <<>>
                            ELSE JSToString(x.v[i])], <<",">>)
      [] OTHER             -> S_objectObject

\* x[key] for a value x that is neither null nor undefined; the last member
\* of that name wins, and only objects of the model own properties
GetProp(x, key) ==
    IF x.t = "obj" /\ \E i \in 1..Len(x.v) : x.v[i].k = key
    THEN x.v[CHOOSE i \in 1..Len(x.v) :
                /\ x.v[i].k = key
                /\ \A j \in (i + 1)..Len(x.v) : x.v[j].k # key].v
    ELSE JUndefined

HasProp(x, key) == x.t = "obj" /\ \E i \in 1..Len(x.v) : x.v[i].k = key

(***************************************************************************)
(* JSON.stringify                                                          *)
(***************************************************************************)
RECURSIVE QuoteChars(_)
QuoteChars(s) ==
    IF s = <<>> THEN <<>>
    ELSE (IF s[1] \in {"\"", "\\"} THEN <<"\\", s[1]>> ELSE <<s[1]>>)
            \o QuoteChars(Tail(s))

Quote(s) == <<"\"">> \o QuoteChars(s) \o <<"\"">>

RECURSIVE JSONStringify(_)
JSONStringify(x) ==
    CASE x.t = "null" -> S_null
      [] x.t = "bool" -> IF x.v THEN S_true ELSE S_false
      [] x.t = "num"  -> NumberToString(x.v)
      [] x.t = "str"  -> Quote(x.v)
      [] x.t = "arr"  ->
            <<"[">> \o JoinStrings([i \in 1..Len(x.v) |-> JSONStringify(x.v[i])], <<",">>)
                    \o <<"]">>
      [] x.t = "obj"  ->
            <<"{">> \o JoinStrings([i \in 1..Len(x.v) |->
                                      Quote(x.v[i].k) \o <<":">> \o JSONStringify(x.v[i].v)],
                                   <<",">>)
                    \o <<"}">>

(***************************************************************************)
(* JSON.parse, by recursive descent over the text s from position i.       *)
(* A parse step yields [ok |-> TRUE, v |-> value, i |-> next position] or  *)
(* ParseFail.  Numbers are integers; the escapes are \" and \\.            *)
(***************************************************************************)
ParseFail == [ok |-> FALSE]

RECURSIVE SkipWs(_, _)
SkipWs(s, i) == IF i <= Len(s) /\ s[i] = " " THEN SkipWs(s, i + 1) ELSE i

StartsWithAt(s, i, lit) ==
    /\ i + Len(lit) - 1 <= Len(s)
    /\ \A j \in 1..Len(lit) : s[i + j - 1] = lit[j]

RECURSIVE ParseStringChars(_, _, _)
ParseStringChars(s, i, acc) ==
    IF i > Len(s) THEN ParseFail
    ELSE IF s[i] = "\"" THEN [ok |-> TRUE, v |-> acc, i |-> i + 1]
    ELSE IF s[i] = "\\"
         THEN IF i + 1 <= Len(s) /\ s[i + 1] \in {"\"", "\\"}
              THEN ParseStringChars(s, i + 2, Append(acc, s[i + 1]))
              ELSE ParseFail
    ELSE ParseStringChars(s, i + 1, Append(acc, s[i]))

RECURSIVE ParseDigits(_, _, _)
ParseDigits(s, i, acc) ==
    IF i <= Len(s) /\ s[i] \in DigitChars
    THEN ParseDigits(s, i + 1, acc * 10 + DigitValue(s[i]))
    ELSE [ok |-> TRUE, v |-> acc, i |-> i]

ParseNat(s, i) ==
    IF i > Len(s) \/ s[i] \notin DigitChars THEN ParseFail
    ELSE IF s[i] = "0" THEN [ok |-> TRUE, v |-> 0, i |-> i + 1]
    ELSE ParseDigits(s, i, 0)

ParseNumber(s, i) ==
    The({IF ~r.ok THEN ParseFail
         ELSE [ok |-> TRUE, v |-> JNum(IF s[i] = "-" THEN 0 - r.v ELSE r.v), i |-> r.i] :
         r \in {ParseNat(s, IF s[i] = "-" THEN i + 1 ELSE i)}})

ParseString(s, i) ==
    The({IF r.ok THEN [ok |-> TRUE, v |-> JStr(r.v), i |-> r.i] ELSE ParseFail :
         r \in {ParseStringChars(s, i + 1, <<>>)}})

RECURSIVE ParseValue(_, _), ParseElements(_, _, _), ParseMembers(_, _, _)
\* the value that starts at position i, no blank before it
ParseValueAt(s, i) ==
    IF i > Len(s) THEN ParseFail
    ELSE IF StartsWithAt(s, i, S_null) THEN [ok |-> TRUE, v |-> JNull, i |-> i + 4]
    ELSE IF StartsWithAt(s, i, S_true) THEN [ok |-> TRUE, v |-> JBool(TRUE), i |-> i + 4]
    ELSE IF StartsWithAt(s, i, S_false) THEN [ok |-> TRUE, v |-> JBool(FALSE), i |-> i + 5]
    ELSE IF s[i] = "\"" THEN ParseString(s, i)
    ELSE IF s[i] = "-" \/ s[i] \in DigitChars THEN ParseNumber(s, i)
    ELSE IF s[i] = "["
         THEN The({IF j <= Len(s) /\ s[j] = "]"
                   THEN [ok |-> TRUE, v |-> JArr(<<>>), i |-> j + 1]
                   ELSE ParseElements(s, j, <<>>) : j \in {SkipWs(s, i + 1)}})
    ELSE IF s[i] = "{"
         THEN The({IF j <= Len(s) /\ s[j] = "}"
                   THEN [ok |-> TRUE, v |-> JObj(<<>>), i |-> j + 1]
                   ELSE ParseMembers(s, j, <<>>) : j \in {SkipWs(s, i + 1)}})
    ELSE ParseFail

ParseValue(s, i0) == The({ParseValueAt(s, i) : i \in {SkipWs(s, i0)}})

\* after an element r of an array: "," and the next element, or "]"
AfterElement(s, r, acc) ==
    The({IF j > Len(s) THEN ParseFail
         ELSE IF s[j] = "," THEN ParseElements(s, j + 1, Append(acc, r.v))
         ELSE IF s[j] = "]" THEN [ok |-> TRUE, v |-> JArr(Append(acc, r.v)), i |-> j + 1]
         ELSE ParseFail : j \in {SkipWs(s, r.i)}})

ParseElements(s, i, acc) ==
    The({IF ~r.ok THEN ParseFail ELSE AfterElement(s, r, acc) : r \in {ParseValue(s, i)}})

\* after a member of an object, acc being the members so far: "," and the
\* next member, or "}"
AfterMember(s, i, acc) ==
    The({IF j > Len(s) THEN ParseFail
         ELSE IF s[j] = "," THEN ParseMembers(s, j + 1, acc)
         ELSE IF s[j] = "}" THEN [ok |-> TRUE, v |-> JObj(acc), i |-> j + 1]
         ELSE ParseFail : j \in {SkipWs(s, i)}})

\* after the key k of a member: ":" and the member's value
AfterKey(s, k, acc) ==
    The({IF c > Len(s) \/ s[c] # ":" THEN ParseFail
         ELSE The({IF ~r.ok THEN ParseFail
                   ELSE AfterMember(s, r.i, Append(acc, Member(k.v, r.v))) :
                   r \in {ParseValue(s, c + 1)}}) :
         c \in {SkipWs(s, k.i)}})

ParseMembers(s, i0, acc) ==
    The({IF i > Len(s) \/ s[i] # "\"" THEN ParseFail
         ELSE The({IF ~k.ok THEN ParseFail ELSE AfterKey(s, k, acc) :
                   k \in {ParseStringChars(s, i + 1, <<>>)}}) :
         i \in {SkipWs(s, i0)}})

\* JSON.parse(s): [ok |-> TRUE, v |-> value], or [ok |-> FALSE] for a SyntaxError
JSONParse(s) ==
    The({IF r.ok /\ SkipWs(s, r.i) = Len(s) + 1 THEN [ok |-> TRUE, v |-> r.v]
         ELSE ParseFail : r \in {ParseValue(s, 1)}})

(***************************************************************************)
(* Toast notifications                                                     *)
(***************************************************************************)
getToastIcon(type) ==
    CASE type = "success" -> "check-circle"
      [] type = "error"   -> "exclamation-circle"
      [] type = "warning" -> "exclamation-triangle"
      [] OTHER            -> "info-circle"

\* the element showToast appends to #toast-container
showToast(message, type) ==
    [message |-> message, type |-> type, icon |-> getToastIcon(type)]

(***************************************************************************)
(* apiRequest                                                              *)
(***************************************************************************)
MaxApiCalls == 2
MaxNum      == 12

S_failedToFetch ==
    <<"F", "a", "i", "l", "e", "d", " ", "t", "o", " ", "f", "e", "t", "c", "h">>
S_unexpectedToken ==
    <<"U", "n", "e", "x", "p", "e", "c", "t", "e", "d", " ", "t", "o", "k", "e", "n">>
S_cannotReadNull ==
    <<"C", "a", "n", "n", "o", "t", " ", "r", "e", "a", "d", " ", "p", "r", "o", "p", "e",
      "r", "t", "i", "e", "s", " ", "o", "f", " ", "n", "u", "l", "l">>

Error(name, message) == [name |-> name, message |-> message]

\* the options object apiRequest builds; body is absent unless data is truthy
apiRequestOptions(method, data) ==
    [method  |-> method,
     headers |-> [ContentType |-> "application/json"],
     body    |-> IF ToBoolean(data)
                 THEN [has |-> TRUE, text |-> JSONStringify(data)]
                 ELSE [has |-> FALSE]]

\* response.ok of the Fetch API
ResponseOk(status) == status >= 200 /\ status <= 299

Fulfilled(value) == [kind |-> "fulfilled", value |-> value, toasts |-> <<>>]

\* apiRequestCatch with the failure swallowed: the toast is shown, nothing is
\* thrown, and the call resolves to undefined
apiRequestCatch_Swallow(error) ==
    [kind |-> "fulfilled", value |-> JUndefined,
     toasts |-> <<showToast(error.message, "error")>>]

\* the catch block: showToast(error.message, 'error'); throw error
apiRequestCatch(error) ==
    [kind |-> "rejected", error |-> error,
     toasts |-> <<showToast(error.message, "error")>>]

\* apiRequestSettle with response.ok tested before the body is parsed
apiRequestSettle_OkFirst(resp) ==
    IF resp.kind = "neterr"
    THEN apiRequestCatch(Error("TypeError", S_failedToFetch))
    ELSE IF ~ResponseOk(resp.status)
         THEN apiRequestCatch(Error("Error", S_apiRequestFailed))
         ELSE The({IF ~parsed.ok
                   THEN apiRequestCatch(Error("SyntaxError", S_unexpectedToken))
                   ELSE Fulfilled(parsed.v) :
                   parsed \in {JSONParse(resp.body)}})

\* the try block from the point fetch settles: how the call settles, and the
\* toasts it emits.  resp is [kind |-> "neterr"] when fetch rejects and
\* [kind |-> "http", status, body] when it resolves.
apiRequestSettle(resp) ==
    IF resp.kind = "neterr"
    THEN apiRequestCatch(Error("TypeError", S_failedToFetch))
    ELSE The({IF ~parsed.ok
              THEN apiRequestCatch(Error("SyntaxError", S_unexpectedToken))
              ELSE IF ~ResponseOk(resp.status)
                   THEN IF parsed.v.t = "null"
                        THEN apiRequestCatch(Error("TypeError", S_cannotReadNull))
                        ELSE The({apiRequestCatch(
                                      Error("Error",
                                            IF ToBoolean(e) THEN JSToString(e)
                                            ELSE S_apiRequestFailed)) :
                                  e \in {GetProp(parsed.v, S_error)}})
                   ELSE Fulfilled(parsed.v) :
              parsed \in {JSONParse(resp.body)}})

Methods == {"GET", "POST"}

\* the payloads of the model, falsy ones first
Payloads ==
    <<JNum(0), JBool(FALSE), JStr(<<>>), JNull,
      JBool(TRUE), JNum(1), JNum(0 - 1), JNum(MaxNum),
      JStr(<<"a">>), JStr(<<"a", "\"", "\\", " ">>),
      JArr(<<>>), JArr(<<JNum(0)>>), JArr(<<JNull, JStr(<<"x">>), JBool(FALSE)>>),
      JObj(<<>>), JObj(<<Member(<<"a">>, JNum(1))>>),
      JObj(<<Member(<<"c", "a", "r", "d">>, JArr(<<JNum(MaxNum), JObj(<<>>)>>)),
             Member(<<"k", "\"">>, JStr(<<>>))>>)>>

Statuses == {200, 201, 400, 404, 500}

B_html == <<"<", "h", "t", "m", "l", ">">>

Bodies ==
    {<<>>, B_html, <<"{">>, <<"0", "1">>, <<"[", "1", ",", "]">>, <<"\"", "a">>,
     S_null, <<" ", "7", " ">>, <<"[", "]">>, <<"\"", "o", "k", "\"">>,
     JSONStringify(JObj(<<>>)),
     JSONStringify(JObj(<<Member(S_error, JStr(<<"X">>))>>)),
     <<"{", " ", "\"", "e", "r", "r", "o", "r", "\"", " ", ":", " ", "\"", "X", "\"", " ", "}">>,
     JSONStringify(JObj(<<Member(S_error, JStr(<<>>))>>)),
     JSONStringify(JObj(<<Member(S_error, JNum(0))>>)),
     JSONStringify(JObj(<<Member(S_error, JNum(MaxNum))>>)),
     JSONStringify(JObj(<<Member(S_error, JNull)>>)),
     JSONStringify(JObj(<<Member(<<"m">>, JStr(<<"X">>))>>))}

NoResponse == [kind |-> "none"]
NoOutcome  == [kind |-> "pending"]
NoRequest  == [url |-> <<>>]

ApiInit ==
    /\ pc = "idle"
    /\ args = [method |-> "GET", data |-> JNull]
    /\ request = NoRequest
    /\ nCalls = 0
    /\ nFetches = 0
    /\ response = NoResponse
    /\ outcome = NoOutcome
    /\ nRejected = 0

\* apiRequest(url, method, data) up to `await fetch(url, options)`
ApiCall(method, data) ==
    /\ pc \in {"idle", "settled"}
    /\ nCalls < MaxApiCalls
    /\ pc' = "awaiting"
    /\ args' = [method |-> method, data |-> data]
    /\ request' = [url |-> S_apiStats, options |-> apiRequestOptions(method, data)]
    /\ nCalls' = nCalls + 1
    /\ nFetches' = nFetches + 1
    /\ response' = NoResponse
    /\ outcome' = NoOutcome
    /\ UNCHANGED <<nRejected, toasts>>

\* the rest of apiRequest, once the transport has answered with resp
ApiSettle(resp) ==
    /\ pc = "awaiting"
    /\ \E r \in {apiRequestSettle(resp)} :
           /\ outcome' = [x \in DOMAIN r \ {"toasts"} |-> r[x]]
           /\ toasts' = toasts \o r.toasts
           /\ nRejected' = nRejected + (IF r.kind = "rejected" THEN 1 ELSE 0)
    /\ response' = resp
    /\ pc' = "settled"
    /\ UNCHANGED <<args, request, nCalls, nFetches>>

FetchRejects == ApiSettle([kind |-> "neterr"])

FetchResolves ==
    \E status \in Statuses, body \in Bodies :
        ApiSettle([kind |-> "http", status |-> status, body |-> body])

(***************************************************************************)
(* Formatting                                                              *)
(***************************************************************************)
\* a JavaScript number as arithmetic sees it: NaN, or the integer v
NaN    == [nan |-> TRUE]
Num(n) == [nan |-> FALSE, v |-> n]

\* StringToNumber for the strings of the model: blanks are trimmed, the empty
\* string is 0, an optionally signed run of digits is its value, the rest NaN
SignedDigits(s, i) ==
    The({IF j > Len(s) \/ s[j] \notin DigitChars THEN NaN
         ELSE The({IF SkipWs(s, r.i) = Len(s) + 1
                   THEN Num(IF s[i] = "-" THEN 0 - r.v ELSE r.v)
                   ELSE NaN : r \in {ParseDigits(s, j, 0)}}) :
         j \in {IF s[i] \in {"-", "+"} THEN i + 1 ELSE i}})

StringToNumber(s) ==
    The({IF i > Len(s) THEN Num(0) ELSE SignedDigits(s, i) : i \in {SkipWs(s, 1)}})

\* ToNumber, which Intl.NumberFormat.prototype.format applies to its argument
ToNumber(x) ==
    CASE x.t = "undefined" -> NaN
      [] x.t = "null"      -> Num(0)
      [] x.t = "bool"      -> Num(IF x.v THEN 1 ELSE 0)
      [] x.t = "num"       -> Num(x.v)
      [] OTHER             -> StringToNumber(JSToString(x))

RECURSIVE GroupThousands(_)
GroupThousands(ds) ==
    IF Len(ds) <= 3 THEN ds
    ELSE GroupThousands(SubSeq(ds, 1, Len(ds) - 3)) \o <<",">>
            \o SubSeq(ds, Len(ds) - 2, Len(ds))

\* new Intl.NumberFormat('en-US', {style: 'currency', currency: 'USD'}).format(amount)
formatCurrency(amount) ==
    The({IF n.nan THEN <<"$", "N", "a", "N">>
         ELSE (IF n.v < 0 THEN <<"-">> ELSE <<>>) \o <<"$">>
                 \o GroupThousands(NatToString(IF n.v < 0 THEN 0 - n.v ELSE n.v))
                 \o <<".", "0", "0">> :
         n \in {ToNumber(amount)}})

\* Number.prototype.toFixed(2) for the integers of the model
toFixed2(n) == NumberToString(n) \o <<".", "0", "0">>

\* what `el.textContent = v` stores: null and undefined become the empty string
TextContent(v) == IF v.t \in {"null", "undefined"} THEN <<>> ELSE JSToString(v)

(***************************************************************************)
(* The page and the statistics poller                                      *)
(***************************************************************************)
MaxTicks   == 2
PollPeriod == 30000

S_dashboard          == <<"d", "a", "s", "h", "b", "o", "a", "r", "d">>
S_total_transactions == <<"t", "o", "t", "a", "l", "_", "t", "r", "a", "n", "s", "a", "c", "t", "i", "o", "n", "s">>
S_total_amount       == <<"t", "o", "t", "a", "l", "_", "a", "m", "o", "u", "n", "t">>
S_fraud_count        == <<"f", "r", "a", "u", "d", "_", "c", "o", "u", "n", "t">>
S_fraud_rate         == <<"f", "r", "a", "u", "d", "_", "r", "a", "t", "e">>

\* Object.keys(elements), in insertion order
SinkIds == <<"stat-total", "stat-amount", "stat-fraud", "stat-rate">>

SinkSet == {SinkIds[i] : i \in 1..Len(SinkIds)}

\* String.prototype.includes
Includes(s, sub) == \E i \in 1..(Len(s) + 1) : StartsWithAt(s, i, sub)

\* OnDashboard with the marker cut short
OnDashboard_ShortMarker(path) == Includes(path, <<"d", "a", "s", "h">>)

\* the guard around setInterval(updateStats, 30000)
OnDashboard(path) == Includes(path, S_dashboard)

P_login == <<"/", "l", "o", "g", "i", "n">>
P_dashboard == <<"/", "d", "a", "s", "h", "b", "o", "a", "r", "d">>
P_adminDashboardStats ==
    <<"/", "a", "d", "m", "i", "n", "/", "d", "a", "s", "h", "b", "o", "a", "r", "d", "/", "s", "t", "a", "t", "s">>
P_Dashboard == <<"/", "D", "a", "s", "h", "b", "o", "a", "r", "d">>
P_dashboar == <<"/", "d", "a", "s", "h", "b", "o", "a", "r">>

Pathnames == {<<"/">>, P_login, P_dashboard, P_adminDashboardStats, P_Dashboard, P_dashboar}

InitialText == <<"0">>

\* the `elements` object of the then-handler, or a TypeError: reading a property
\* of null, or calling toFixed on a fraud_rate that is not a number
updateStatsElements(data) ==
    IF data.t \in {"null", "undefined"} THEN [threw |-> TRUE]
    ELSE IF GetProp(data, S_fraud_rate).t # "num" THEN [threw |-> TRUE]
    ELSE [threw |-> FALSE,
          elements |->
              [id \in SinkSet |->
                  CASE id = "stat-total"  -> GetProp(data, S_total_transactions)
                    [] id = "stat-amount" ->
                          JStr(formatCurrency(GetProp(data, S_total_amount)))
                    [] id = "stat-fraud"  -> GetProp(data, S_fraud_count)
                    [] id = "stat-rate"   ->
                          JStr(toFixed2(GetProp(data, S_fraud_rate).v) \o <<"%">>)]]

\* Object.keys(elements).forEach(...) from key i on: each element that exists
\* gets its text, each element that does not is skipped
RECURSIVE WriteSinks(_, _, _)
WriteSinks(d, elements, i) ==
    IF i > Len(SinkIds) THEN d
    ELSE The({WriteSinks(d1, elements, i + 1) :
              d1 \in {IF SinkIds[i] \in DOMAIN d
                      THEN [d EXCEPT ![SinkIds[i]] = TextContent(elements[SinkIds[i]])]
                      ELSE d}})

\* WriteSinks without the `if (el)` test: the first element that does not
\* exist raises a TypeError, the elements before it are already written
RECURSIVE WriteSinksUnguarded(_, _, _)
WriteSinksUnguarded(d, elements, i) ==
    IF i > Len(SinkIds) THEN [threw |-> FALSE, dom |-> d]
    ELSE IF SinkIds[i] \notin DOMAIN d THEN [threw |-> TRUE, dom |-> d]
    ELSE The({WriteSinksUnguarded(d1, elements, i + 1) :
              d1 \in {[d EXCEPT ![SinkIds[i]] = TextContent(elements[SinkIds[i]])]}})

updateStatsThen_Unguarded(d, data) ==
    The({IF e.threw THEN [threw |-> TRUE, dom |-> d]
         ELSE WriteSinksUnguarded(d, e.elements, 1) :
         e \in {updateStatsElements(data)}})

\* updateStatsThen writing each sink as soon as its value is computed: a
\* fraud_rate that is not a number throws after three sinks were written
updateStatsThen_WriteAsComputed(d, data) ==
    IF data.t \in {"null", "undefined"} THEN [threw |-> TRUE, dom |-> d]
    ELSE The({IF e.threw
              THEN [threw |-> TRUE,
                    dom |-> [id \in DOMAIN d |->
                                CASE id = "stat-total" ->
                                        TextContent(GetProp(data, S_total_transactions))
                                  [] id = "stat-amount" ->
                                        formatCurrency(GetProp(data, S_total_amount))
                                  [] id = "stat-fraud" ->
                                        TextContent(GetProp(data, S_fraud_count))
                                  [] OTHER -> d[id]]]
              ELSE [threw |-> FALSE, dom |-> WriteSinks(d, e.elements, 1)] :
              e \in {updateStatsElements(data)}})

\* updateStatsThen with a freshness test: a snapshot whose total_transactions
\* is below the total on display is dropped
updateStatsThen_DropsOlder(d, data) ==
    The({IF e.threw THEN [threw |-> TRUE, dom |-> d]
         ELSE IF /\ "stat-total" \in DOMAIN d
                 /\ e.elements["stat-total"].t = "num"
                 /\ ~StringToNumber(d["stat-total"]).nan
                 /\ e.elements["stat-total"].v < StringToNumber(d["stat-total"]).v
              THEN [threw |-> FALSE, dom |-> d]
              ELSE [threw |-> FALSE, dom |-> WriteSinks(d, e.elements, 1)] :
         e \in {updateStatsElements(data)}})

\* the then-handler of updateStats on the page d, given the resolved data
updateStatsThen(d, data) ==
    The({IF e.threw THEN [threw |-> TRUE, dom |-> d]
         ELSE [threw |-> FALSE, dom |-> WriteSinks(d, e.elements, 1)] :
         e \in {updateStatsElements(data)}})

\* updateStatsCatch throwing the failure on after logging it
updateStatsCatch_Rethrow(failure) == [logged |-> 1, unhandled |-> 1]

\* the catch-handler of updateStats: console.error, and the chain is fulfilled
updateStatsCatch(failure) == [logged |-> 1, unhandled |-> 0]

\* the chain after apiRequest settled as r
updateStatsSettled(d, r) ==
    IF r.kind = "rejected"
    THEN The({[dom |-> d, failed |-> TRUE, requestOk |-> FALSE, data |-> JUndefined,
               logged |-> c.logged, unhandled |-> c.unhandled, toasts |-> r.toasts] :
              c \in {updateStatsCatch("request")}})
    ELSE The({IF t.threw
              THEN The({[dom |-> t.dom, failed |-> TRUE, requestOk |-> TRUE,
                         data |-> r.value, logged |-> c.logged,
                         unhandled |-> c.unhandled, toasts |-> r.toasts] :
                        c \in {updateStatsCatch("then")}})
              ELSE [dom |-> t.dom, failed |-> FALSE, requestOk |-> TRUE,
                    data |-> r.value, logged |-> 0, unhandled |-> 0,
                    toasts |-> r.toasts] :
              t \in {updateStatsThen(d, r.value)}})

\* one promise chain of updateStats, from the transport's answer to its end
updateStatsChain(d, resp) ==
    The({updateStatsSettled(d, r) : r \in {apiRequestSettle(resp)}})

\* the statistics the server reports when it answers the request of tick n
Snapshot(n) ==
    JObj(<<Member(S_total_transactions, JNum(n)),
           Member(S_total_amount, JNum(1000 * n + 234)),
           Member(S_fraud_count, JNum(n - 1)),
           Member(S_fraud_rate, JNum(n + 2))>>)

WithoutMember(o, key) == JObj(SelectSeq(o.v, LAMBDA m : m.k # key))

Http(status, value) == [kind |-> "http", status |-> status, body |-> JSONStringify(value)]

\* what the transport may deliver to the request of tick n
PollResponses(n) ==
    {[kind |-> "neterr"],
     [kind |-> "http", status |-> 200, body |-> B_html],
     Http(500, JObj(<<Member(S_error, JStr(<<"X">>))>>)),
     Http(200, Snapshot(n)),
     Http(200, WithoutMember(Snapshot(n), S_total_transactions)),
     Http(200, WithoutMember(Snapshot(n), S_fraud_rate)),
     Http(200, JNull)}

NoChain == [n |-> 0]
NoElements == [has |-> FALSE]

PollInit ==
    /\ pathname \in Pathnames
    /\ loaded = FALSE
    /\ intervals = {}
    /\ now = 0
    /\ dom \in UNION {[E -> {InitialText}] : E \in SUBSET SinkSet}
    /\ inflight = {}
    /\ dispatched = 0
    /\ last = NoChain
    /\ lastOk = NoElements
    /\ consoleErrors = 0
    /\ unhandled = 0

\* the script's top-level code: if (pathname.includes('dashboard')) setInterval(...)
ScriptLoad ==
    /\ ~loaded
    /\ loaded' = TRUE
    /\ intervals' = IF OnDashboard(pathname) THEN {1} ELSE {}
    /\ UNCHANGED <<pathname, now, dom, inflight, dispatched, last, lastOk,
                   consoleErrors, unhandled, toasts>>

\* 30000 ms pass: every interval timer expires and runs updateStats, which
\* calls apiRequest('/api/stats') and returns; the toasts shown before have
\* removed themselves (5000 ms + 300 ms after they appeared)
IntervalElapses ==
    /\ loaded
    /\ now < MaxTicks * PollPeriod
    /\ now' = now + PollPeriod
    /\ dispatched' = dispatched + Cardinality(intervals)
    /\ inflight' = inflight \cup ((dispatched + 1)..(dispatched + Cardinality(intervals)))
    /\ toasts' = <<>>
    /\ UNCHANGED <<pathname, loaded, intervals, dom, last, lastOk, consoleErrors,
                   unhandled>>

\* the transport answers the request of tick n and its promise chain runs to
\* the end: apiRequest settles, then the then-handler or the catch-handler
TickSettles(n, resp) ==
    /\ n \in inflight
    /\ \E c \in {updateStatsChain(dom, resp)} :
           /\ dom' = c.dom
           /\ toasts' = toasts \o c.toasts
           /\ consoleErrors' = consoleErrors + c.logged
           /\ unhandled' = unhandled + c.unhandled
           /\ last' = [n |-> n, failed |-> c.failed, requestOk |-> c.requestOk,
                       data |-> c.data, logged |-> c.logged]
           /\ lastOk' = IF c.failed THEN lastOk
                        ELSE [has |-> TRUE, n |-> n,
                              newest |-> IF lastOk.has /\ lastOk.newest > n
                                         THEN lastOk.newest ELSE n,
                              elements |-> updateStatsElements(c.data).elements]
    /\ inflight' = inflight \ {n}
    /\ UNCHANGED <<pathname, loaded, intervals, now, dispatched>>

StatsResponse == \E n \in inflight : \E resp \in PollResponses(n) : TickSettles(n, resp)

(***************************************************************************)
(* debounce(func, wait), as handleSearch = debounce(..., 300) uses it      *)
(***************************************************************************)
wait          == 300
Granularity   == 100
MaxClockSteps == 6
MaxCalls      == 3

\* the arguments of a call: the text of the search input at that moment
ArgSet == {"a", "b"}

clearTimeout(ts, id) == {t \in ts : t.id # id}

\* executedFunction without the clearTimeout before the new timer
executedFunction_NoClear(ts, handle, id, t, a, k) ==
    [timers  |-> ts \cup {[id |-> id, due |-> t + wait, args |-> a, call |-> k]},
     timeout |-> id]

\* executedFunction(...args): clearTimeout(timeout); timeout = setTimeout(later, wait)
executedFunction(ts, handle, id, t, a, k) ==
    [timers  |-> clearTimeout(ts, handle)
                    \cup {[id |-> id, due |-> t + wait, args |-> a, call |-> k]},
     timeout |-> id]

DebounceInit ==
    /\ timeout = 0
    /\ timers = {}
    /\ nextId = 1
    /\ clock = 0
    /\ calls = <<>>
    /\ invoked = <<>>

\* a keystroke: the debounced function is called with a
DebouncedCall(a) ==
    /\ Len(calls) < MaxCalls
    /\ \E r \in {executedFunction(timers, timeout, nextId, clock, a, Len(calls) + 1)} :
           /\ timers' = r.timers
           /\ timeout' = r.timeout
    /\ nextId' = nextId + 1
    /\ calls' = Append(calls, [time |-> clock, args |-> a])
    /\ UNCHANGED <<clock, invoked>>

\* a pending timer is due and the event loop runs it: later() clears the
\* handle in `timeout` and calls func with the arguments of the call that
\* created the timer
TimerFires(t) ==
    /\ t \in timers
    /\ t.due <= clock
    /\ timers' = clearTimeout(timers \ {t}, timeout)
    /\ invoked' = Append(invoked, [time |-> clock, args |-> t.args, call |-> t.call,
                                   calls |-> Len(calls)])
    /\ UNCHANGED <<timeout, nextId, clock, calls>>

\* time passes; a due timer may run late
ClockAdvances ==
    /\ clock < MaxClockSteps * Granularity
    /\ clock' = clock + Granularity
    /\ UNCHANGED <<timeout, timers, nextId, calls, invoked>>

(***************************************************************************)
(* Specifications                                                          *)
(***************************************************************************)
PollIdle ==
    /\ pathname = <<"/">>
    /\ loaded = FALSE
    /\ intervals = {}
    /\ now = 0
    /\ dom = <<>>
    /\ inflight = {}
    /\ dispatched = 0
    /\ last = NoChain
    /\ lastOk = NoElements
    /\ consoleErrors = 0
    /\ unhandled = 0

\* ---- apiRequest called by some page code, one call after the other ------
InitApi == ApiInit /\ toasts = <<>> /\ PollIdle /\ DebounceInit

Call ==
    /\ \E m \in Methods, i \in 1..Len(Payloads) : ApiCall(m, Payloads[i])
    /\ UNCHANGED <<pollVars, debVars>>

TransportFails == FetchRejects /\ UNCHANGED <<pollVars, debVars>>

TransportAnswers == FetchResolves /\ UNCHANGED <<pollVars, debVars>>

NextApi == Call \/ TransportFails \/ TransportAnswers

SpecApi == InitApi /\ [][NextApi]_vars

\* ---- a page with the script loaded, over MaxTicks poll periods -----------
InitPoll == PollInit /\ toasts = <<>> /\ ApiInit /\ DebounceInit

Load == ScriptLoad /\ UNCHANGED <<apiVars, debVars>>

Elapse == IntervalElapses /\ UNCHANGED <<apiVars, debVars>>

Respond == StatsResponse /\ UNCHANGED <<apiVars, debVars>>

NextPoll == Load \/ Elapse \/ Respond

SpecPoll == InitPoll /\ [][NextPoll]_vars

\* ---- the debounced search handler under keystrokes and time --------------
InitDebounce == DebounceInit /\ toasts = <<>> /\ ApiInit /\ PollIdle

Keystroke == (\E a \in ArgSet : DebouncedCall(a)) /\ UNCHANGED <<apiVars, toasts, pollVars>>

Fire == (\E t \in timers : TimerFires(t)) /\ UNCHANGED <<apiVars, toasts, pollVars>>

Tick == ClockAdvances /\ UNCHANGED <<apiVars, toasts, pollVars>>

NextDebounce == Keystroke \/ Fire \/ Tick

SpecDebounce == InitDebounce /\ [][NextDebounce]_vars

(***************************************************************************)
(* Properties                                                              *)
(***************************************************************************)
\* structural equality of two JavaScript values
JSEquals(a, b) == a.t = b.t /\ a = b

Last(q) == q[Len(q)]

\* ---- apiRequest ----------------------------------------------------------

\* C1: for every valid JSON payload P, apiRequest(url, 'POST', P) hands fetch a
\* body that decodes, as JSON, to a value structurally equal to P.
C1_PostBodyDecodesToPayload ==
    (pc # "idle" /\ args.method = "POST") =>
        /\ request.options.body.has
        /\ \A parsed \in {JSONParse(request.options.body.text)} :
                parsed.ok /\ JSEquals(parsed.v, args.data)

\* the message C2 expects for the parsed body v of a response that is not ok
C2_ExpectedMessage(v) ==
    IF HasProp(v, S_error) THEN JSToString(GetProp(v, S_error)) ELSE S_apiRequestFailed

\* C2: a response whose status is not 2xx and whose body parses as JSON makes
\* apiRequest fail with the body's `error` field as the message when the field
\* is present, and with "API request failed" when the body has no such field.
C2_MessageIsErrorFieldOrFallback ==
    (pc = "settled" /\ response.kind = "http" /\ ~ResponseOk(response.status)) =>
        \A parsed \in {JSONParse(response.body)} :
            parsed.ok =>
                /\ outcome.kind = "rejected"
                /\ outcome.error.message = C2_ExpectedMessage(parsed.v)

\* the responses C3 counts as failures: the transport failed, the status is
\* not 2xx, or the body is not JSON
C3_Fails(resp) ==
    \/ resp.kind = "neterr"
    \/ resp.kind = "http" /\ (~ResponseOk(resp.status) \/ ~JSONParse(resp.body).ok)

\* C3: a call that fails rejects to its caller and emits exactly one toast of
\* severity 'error' carrying the failure's message; a call that succeeds emits
\* none; fetch is attempted exactly once per call.
C3_FailureRejectsAndToastsOnce ==
    /\ nFetches = nCalls
    /\ Len(toasts) = nRejected
    /\ \A i \in 1..Len(toasts) : toasts[i].type = "error"
    /\ pc = "settled" =>
          /\ C3_Fails(response) <=> outcome.kind = "rejected"
          /\ outcome.kind = "rejected" =>
                Last(toasts) = [message |-> outcome.error.message, type |-> "error",
                                icon |-> "exclamation-circle"]

\* C3 witness: a first call succeeded without a toast, a second call got a
\* non-2xx answer, rejected and left the one toast
C3_Witness ==
    /\ pc = "settled"
    /\ nCalls = 2
    /\ nRejected = 1
    /\ response.kind = "http"
    /\ response.status = 500
    /\ outcome.kind = "rejected"
    /\ outcome.error.message = <<"X">>
    /\ Len(toasts) = 1

\* C8: a response whose body is not valid JSON makes apiRequest fail with the
\* parse failure whatever the status, and a value is returned only when the
\* body parsed and the status is a success status, the value being the parsed
\* body.
C8_UnparsableBodyFails ==
    pc = "settled" =>
        /\ response.kind = "neterr" => outcome.kind = "rejected"
        /\ response.kind = "http" =>
              \A parsed \in {JSONParse(response.body)} :
                  /\ ~parsed.ok =>
                        outcome.kind = "rejected" /\ outcome.error.name = "SyntaxError"
                  /\ outcome.kind = "fulfilled" =>
                        /\ parsed.ok
                        /\ ResponseOk(response.status)
                        /\ JSEquals(outcome.value, parsed.v)

\* C8 witness: a 500 answer with an HTML body was rejected as a parse failure
C8_Witness ==
    /\ pc = "settled"
    /\ response.kind = "http"
    /\ response.status = 500
    /\ response.body = B_html
    /\ outcome.kind = "rejected"
    /\ outcome.error.name = "SyntaxError"

\* ---- the statistics poller -----------------------------------------------

\* the pathnames of the model that contain "dashboard"
DashboardPaths == {P_dashboard, P_adminDashboardStats}

\* C4: on a dashboard page every failure of a tick is consumed inside the tick,
\* the interval timer stays, and every expiry of the 30000 ms interval so far
\* has dispatched its tick, whatever happened to the ticks before.
C4_ScheduleIsolation ==
    /\ unhandled = 0
    /\ (loaded /\ pathname \in DashboardPaths) =>
          /\ Cardinality(intervals) = 1
          /\ dispatched * PollPeriod = now

\* C4 witness: the first tick failed in its request and logged it, and the
\* second tick was dispatched at the second expiry
C4_Witness ==
    /\ pathname \in DashboardPaths
    /\ now = 2 * PollPeriod
    /\ dispatched = 2
    /\ inflight = {2}
    /\ consoleErrors = 1
    /\ last.n = 1
    /\ last.failed
    /\ ~last.requestOk

\* C5: on a page whose path does not contain "dashboard" no timer is created
\* and no /api/stats request is ever issued; on a page whose path contains it
\* exactly one interval timer exists once the script has run.
C5_ActivationGuard ==
    /\ pathname \notin DashboardPaths =>
          /\ intervals = {}
          /\ dispatched = 0
          /\ inflight = {}
          /\ last = NoChain
    /\ pathname \in DashboardPaths =>
          Cardinality(intervals) = (IF loaded THEN 1 ELSE 0)

\* C5 witness: the script ran on /dashboar, a full period passed, nothing was
\* requested
C5_Witness ==
    /\ loaded
    /\ pathname = P_dashboar
    /\ now >= PollPeriod
    /\ dispatched = 0
    /\ inflight = {}

\* C6: a tick that fails, in the request or in the formatting, leaves every
\* sink as it was.
C6_FailedTickWritesNothing ==
    [][(last' # last /\ last'.failed) => dom' = dom]_vars

\* C6 witness: after a tick that rendered, a later tick got a snapshot without
\* fraud_rate and failed, and the sinks still show the earlier tick
C6_Witness ==
    /\ last.n # 0
    /\ last.failed
    /\ last.requestOk
    /\ last.data.t = "obj"
    /\ lastOk.has
    /\ lastOk.n < last.n
    /\ DOMAIN dom = SinkSet
    /\ dom["stat-total"] = NumberToString(lastOk.n)

\* the data a then-handler can format: an object whose fraud_rate is a number
C7_Formattable(data) == data.t = "obj" /\ GetProp(data, S_fraud_rate).t = "num"

\* C7: whichever of the four sinks exist, a tick whose request succeeded with
\* a formattable snapshot does not fail and logs nothing, every sink that
\* exists shows the snapshot's value, and no sink is created.
C7_MissingSinksAreSkipped ==
    (last.n # 0 /\ last.requestOk /\ C7_Formattable(last.data)) =>
        /\ ~last.failed
        /\ last.logged = 0
        /\ DOMAIN dom \subseteq SinkSet
        /\ \A id \in DOMAIN dom :
              dom[id] = TextContent(updateStatsElements(last.data).elements[id])

\* C7 witness: a page without stat-fraud, after a tick that rendered
C7_Witness ==
    /\ last.n = 1
    /\ ~last.failed
    /\ DOMAIN dom = SinkSet \ {"stat-fraud"}
    /\ dom["stat-total"] = <<"1">>
    /\ dom["stat-amount"] = <<"$", "1", ",", "2", "3", "4", ".", "0", "0">>
    /\ dom["stat-rate"] = <<"3", ".", "0", "0", "%">>

\* C9: the sinks show the snapshot of the response that arrived last among
\* those that rendered, whether or not a later tick has rendered before it.
C9_LastArrivalWins ==
    IF lastOk.has
    THEN \A id \in DOMAIN dom : dom[id] = TextContent(lastOk.elements[id])
    ELSE \A id \in DOMAIN dom : dom[id] = InitialText

\* C9 witness: two requests were in flight, the later tick's response rendered
\* first, the earlier tick's response rendered after it, and the sinks show
\* the earlier, older snapshot
C9_Witness ==
    /\ lastOk.has
    /\ lastOk.n < lastOk.newest
    /\ last.n = lastOk.n
    /\ DOMAIN dom = SinkSet
    /\ dom["stat-total"] = NumberToString(lastOk.n)
    /\ dom["stat-rate"] = toFixed2(lastOk.n + 2) \o <<"%">>

\* ---- debounce --------------------------------------------------------------

\* C10: at most one timer is pending, and it belongs to the most recent call;
\* func runs only from a timer no call followed, with that call's arguments
\* and not before `wait` after it; so a call followed by another within less
\* than `wait` never runs func, and once no timer is pending the last call
\* has run func exactly once.
C10_Debounce ==
    /\ Cardinality(timers) <= 1
    /\ \A t \in timers :
          /\ t.id = timeout
          /\ t.call = Len(calls)
          /\ t.args = Last(calls).args
          /\ t.due = Last(calls).time + wait
    /\ \A i \in 1..Len(invoked) :
          /\ invoked[i].call = invoked[i].calls
          /\ invoked[i].args = calls[invoked[i].call].args
          /\ invoked[i].time >= calls[invoked[i].call].time + wait
          /\ \A j \in 1..Len(invoked) : i < j => invoked[i].call < invoked[j].call
    /\ \A k \in 1..(Len(calls) - 1) :
          calls[k + 1].time - calls[k].time < wait =>
              \A i \in 1..Len(invoked) : invoked[i].call # k
    /\ (timers = {} /\ calls # <<>>) =>
          \E i \in 1..Len(invoked) : invoked[i].call = Len(calls)

\* C10 witness: three calls, each less than `wait` after the one before, with
\* different arguments, ended in one invocation with the last call's arguments
C10_Witness ==
    /\ Len(calls) = 3
    /\ calls[2].time > calls[1].time
    /\ calls[2].time - calls[1].time < wait
    /\ calls[3].time > calls[2].time
    /\ calls[3].time - calls[2].time < wait
    /\ calls[1].args # calls[3].args
    /\ timers = {}
    /\ Len(invoked) = 1
    /\ invoked[1].args = calls[3].args

====
